---- MODULE Spec2Model ----
(***************************************************************************)
(* A model of the VAULT PDF generator service (src/app.py): the bearer     *)
(* credential check, the Generate and Retrieve handlers over the storage   *)
(* directory, the two tables of the affidavit and the page decorator.      *)
(*                                                                         *)
(* Text is a sequence of one-character strings, so that the string         *)
(* operations of the code (startswith, replace, slicing, upper, f-string   *)
(* concatenation) are computed rather than assumed.                        *)
(***************************************************************************)
EXTENDS Integers, Sequences, FiniteSets, TLC

VARIABLES
    authIn,     \* the Authorization header a credential check is given
    authOut,    \* what verify_api_key answered for authIn
    pdfIn,      \* the AffidavitRequest a composition is given
    pdfOut,     \* the tables create_affidavit_pdf built from pdfIn
    store,      \* the storage directory: filename -> bytes of the file
    workers,    \* the requests in progress, one per server thread
    issued,     \* history: filename -> the bytes stored by the first Generate that returned it
    canvas,     \* the page canvas: graphics state and the stack of saved states
    served,     \* how many requests have arrived
    clients,    \* the load: the threads in use, the requests sent, the records sent
    deco        \* the position of doc.build in its pages and in add_page_elements

vars == <<authIn, authOut, pdfIn, pdfOut, store, workers, issued, served, clients, canvas, deco>>

----------------------------------------------------------------------------
(* Text helpers *)

RECURSIVE Concat(_)
Concat(parts) ==
    IF parts = <<>> THEN <<>> ELSE Head(parts) \o Concat(Tail(parts))

\* str.startswith(prefix)
StartsWith(s, prefix) ==
    /\ Len(s) >= Len(prefix)
    /\ SubSeq(s, 1, Len(prefix)) = prefix

\* str.replace(old, new): every non-overlapping occurrence, left to right
RECURSIVE Replace(_, _, _)
Replace(s, old, new) ==
    IF s = <<>> THEN <<>>
    ELSE IF StartsWith(s, old)
         THEN new \o Replace(SubSeq(s, Len(old) + 1, Len(s)), old, new)
         ELSE <<Head(s)>> \o Replace(Tail(s), old, new)

Contains(s, c) == \E i \in 1..Len(s) : s[i] = c

----------------------------------------------------------------------------
(* Configuration *)

\* the configured secret (API_KEY); a two-character sample of it
API_KEY == <<"k", "1">>

PDF_STORAGE_DIR == <<"g", "e", "n", "e", "r", "a", "t", "e", "d", "_", "p", "d", "f", "s">>

Bearer == <<"B", "e", "a", "r", "e", "r", " ">>

----------------------------------------------------------------------------
(* verify_api_key *)

\* An Authorization header: absent, or present with a value.
NoHeader == [present |-> FALSE, value |-> <<>>]
HeaderOf(v) == [present |-> TRUE, value |-> v]

\* Header(...) makes the header required: without it the framework answers 422
\* before the function runs. Otherwise 401 unless the value starts with
\* "Bearer " and, with every "Bearer " removed, equals API_KEY.
verify_api_key(authorization) ==
    IF ~authorization.present THEN [status |-> 422, token |-> <<>>]
    ELSE IF ~StartsWith(authorization.value, Bearer)
         THEN [status |-> 401, token |-> <<>>]
         ELSE LET token == Replace(authorization.value, Bearer, <<>>)
              IN  IF token # API_KEY
                  THEN [status |-> 401, token |-> <<>>]
                  ELSE [status |-> 200, token |-> token]

----------------------------------------------------------------------------
(* uuid.uuid4().hex, number and date formatting *)

MaxSeed == 1

HexDigits == <<"0", "1", "2", "3", "4", "5", "6", "7",
               "8", "9", "a", "b", "c", "d", "e", "f">>

\* uuid.uuid4(): 32 random nibbles, of which the 13th is the version (4) and
\* the 17th holds the variant (8..b). The random source is sampled by a seed:
\* distinct seeds give UUIDs whose first nibbles differ, equal seeds are the
\* case of two calls drawing the same value.
uuid4(seed) ==
    [i \in 1..32 |->
        IF i = 13 THEN 4
        ELSE IF i = 17 THEN 8 + ((seed + i) % 4)
        ELSE (9 * seed + i * (2 * seed + 1)) % 16]

\* UUID.hex: the 32 nibbles as lowercase hexadecimal digits
hex(u) == [i \in 1..Len(u) |-> HexDigits[u[i] + 1]]

\* character-wise str.upper() on the characters the model uses
UpperChar(c) ==
    CASE c = "a" -> "A" [] c = "b" -> "B" [] c = "c" -> "C"
      [] c = "d" -> "D" [] c = "e" -> "E" [] c = "f" -> "F"
      [] OTHER -> c

upper(s) == [i \in 1..Len(s) |-> UpperChar(s[i])]

\* str(n) for a natural number
RECURSIVE IntToStr(_)
IntToStr(n) ==
    IF n < 10 THEN <<HexDigits[n + 1]>>
    ELSE IntToStr(n \div 10) \o <<HexDigits[(n % 10) + 1]>>

\* %d, %H, %M, %S: two digits, zero padded
TwoDigits(n) == IF n < 10 THEN <<"0">> \o IntToStr(n) ELSE IntToStr(n)

MonthName(m) ==
    CASE m = 1 -> <<"J", "a", "n", "u", "a", "r", "y">>
      [] m = 2 -> <<"F", "e", "b", "r", "u", "a", "r", "y">>
      [] OTHER -> <<"M", "a", "r", "c", "h">>

\* data.date.strftime("%B %d, %Y at %H:%M:%S UTC")
strftime(date) ==
    Concat(<< MonthName(date.month), <<" ">>, TwoDigits(date.day), <<",", " ">>,
              IntToStr(date.year), <<" ", "a", "t", " ">>,
              TwoDigits(date.hour), <<":">>, TwoDigits(date.minute), <<":">>,
              TwoDigits(date.second), <<" ", "U", "T", "C">> >>)

\* f"{data.amount}" for an amount with one decimal digit
FormatAmount(amount) == IntToStr(amount.whole) \o <<".">> \o IntToStr(amount.tenths)

----------------------------------------------------------------------------
(* AffidavitRequest *)

\* Optional[str]: None is the empty option, a string s is <<s>>
None == <<>>
Some(s) == <<s>>

TransactionIds ==
    { <<"T">>, <<>>, <<".", ".">>, <<"a", "/", "b">> }

NotesValues == { None, Some(<<>>), Some(<<"n">>), Some(<<"n", "\n", "n">>) }

Senders == { <<"A">>, <<>> }

SampleDate ==
    [year |-> 2024, month |-> 1, day |-> 15, hour |-> 10, minute |-> 30, second |-> 0]

AffidavitRequest(tid, notes, sender) ==
    [sender |-> sender, receiver |-> <<"B">>,
     amount |-> [whole |-> 100, tenths |-> 5], currency |-> <<"U", "S", "D">>,
     date |-> SampleDate, transactionId |-> tid, notes |-> notes]

----------------------------------------------------------------------------
(* create_affidavit_pdf: the two tables *)

\* Python truthiness of Optional[str]: neither None nor ""
Truthy(opt) == opt # None /\ opt[1] # <<>>

\* the notes test as "is not None" would write it
NotesPresent_is_not_none(data) == data.notes # None

\* `if data.notes:`
NotesPresent(data) == Truthy(data.notes)

transaction_data(data) ==
    << <<"Transaction ID", <<"#">> \o data.transactionId>>,
       <<"Date", strftime(data.date)>>,
       <<"Sender", data.sender>>,
       <<"Receiver", data.receiver>>,
       <<"Amount", FormatAmount(data.amount) \o <<" ">> \o data.currency>> >>
    \o (IF NotesPresent(data) THEN << <<"Notes", data.notes[1]>> >> ELSE <<>>)

\* the hash cell without the .upper()
SecurityHash_lowercase(u) == SubSeq(hex(u), 1, 12)

\* uuid.uuid4().hex[:12].upper()
SecurityHash(u) == upper(SubSeq(hex(u), 1, 12))

verification_data(u) ==
    << <<"Verification Status:", <<"V", "E", "R", "I", "F", "I", "E", "D">>>>,
       <<"Security Hash:", SecurityHash(u)>>,
       <<"Platform:", <<"V", "A", "U", "L", "T", " ",
                        "F", "i", "n", "a", "n", "c", "i", "a", "l">>>> >>

\* The document create_affidavit_pdf composes: its two tables (the literal
\* paragraphs and spacers around them are the same in every document).
Compose(data, hashSeed) ==
    [transaction_table |-> transaction_data(data),
     verification_table |-> verification_data(uuid4(hashSeed))]

----------------------------------------------------------------------------
(* The storage directory and the filenames *)

\* f"VAULT_Affidavit_{request.transactionId}_{uuid.uuid4().hex[:8]}.pdf"
FilenamePrefix ==
    <<"V", "A", "U", "L", "T", "_", "A", "f", "f", "i", "d", "a", "v", "i", "t", "_">>

MakeFilename(tid, u) ==
    Concat(<< FilenamePrefix,
              tid, <<"_">>, SubSeq(hex(u), 1, 8), <<".", "p", "d", "f">> >>)

\* f"/download-affidavit/{filename}"
MakeUrl(filename) ==
    <<"/", "d", "o", "w", "n", "l", "o", "a", "d", "-",
      "a", "f", "f", "i", "d", "a", "v", "i", "t", "/">> \o filename

\* os.path.join(PDF_STORAGE_DIR, filename)
JoinPath(filename) == PDF_STORAGE_DIR \o <<"/">> \o filename

\* The names under the storage directory that are directories: the directory
\* itself and its parent. The code creates no other.
IsDirectory(name) == name \in { <<".">>, <<".", ".">> }

\* os.path.exists(filepath), for a filename without a path separator
Exists(name, files) == IsDirectory(name) \/ name \in DOMAIN files

\* open(filepath, "wb") can create the file only in an existing directory:
\* the storage area is flat, so a filename with a separator names a directory
\* that does not exist.
CanOpen(filename) ==
    LET path == JoinPath(filename)
    IN  \A j \in (Len(PDF_STORAGE_DIR) + 2)..Len(path) : path[j] # "/"

\* The bytes of a file: none yet (created or truncated, not written), or the
\* whole document.
NoBytes == <<>>
BytesOf(doc) == <<doc>>

Put(files, name, bytes) ==
    [n \in DOMAIN files \cup {name} |-> IF n = name THEN bytes ELSE files[n]]

----------------------------------------------------------------------------
(* Requests *)

MaxWorkers == 2

\* the requests concurrent clients send in all (a single client sends one more)
MaxRequests == 2

Workers == 1..MaxWorkers

Seeds == 0..MaxSeed

\* the header values tried: up to MaxParts fragments put together, or no header
MaxParts == 3

HeaderParts == { Bearer, API_KEY, <<"x">>, <<" ">> }

RECURSIVE Joined(_)
Joined(n) ==
    IF n = 0 THEN { <<>> }
    ELSE Joined(n - 1) \cup { h \o p : h \in Joined(n - 1), p \in HeaderParts }

Headers == { NoHeader } \cup { HeaderOf(v) : v \in Joined(MaxParts) }

\* the headers the two routes are tried with: none, the right one, the key
\* without its prefix, a wrong key, and the prefix twice
ServiceHeaders ==
    { NoHeader, HeaderOf(Bearer \o API_KEY), HeaderOf(API_KEY),
      HeaderOf(Bearer \o <<"x">>), HeaderOf(Bearer \o Bearer \o API_KEY) }

\* the names a Retrieve can ask for besides those Generate can produce
OtherNames == { <<"x", ".", "p", "d", "f">>, <<".", ".">> }

\* the {filename} path parameter: one path segment, so no separator
RetrieveNames ==
    { n \in { MakeFilename(d.transactionId, uuid4(k)) : d \in clients.records, k \in Seeds } :
        ~Contains(n, "/") }
    \cup OtherNames

Idle ==
    [pc |-> "idle", kind |-> "none", token |-> <<>>, filename |-> <<>>,
     bytes |-> NoBytes, status |-> 0, detail |-> "", ref |-> <<>>, content |-> <<>>]

Respond(w, status, detail) ==
    [w EXCEPT !.pc = "done", !.status = status, !.detail = detail]

\* a route that runs its handler whatever the dependency answered
Depends_ignored(w, checked, handled) == handled

\* api_key: str = Depends(verify_api_key): the handler runs only after the
\* check returned; a check that raised is the response. `handled` is the set
\* of ways the handler can go.
Depends(w, checked, handled) ==
    IF checked.status = 200 THEN handled
    ELSE { Respond(w, checked.status, "credential") }

Quiet == <<authIn, authOut, pdfIn, pdfOut, canvas, deco>>

\* a free thread, or one that has sent its response, takes the next request
Free(i) ==
    /\ workers[i].pc \in {"idle", "done"}
    /\ i \in clients.threads
    /\ served < clients.requests

\* generate_affidavit up to doc.build's layout: the filename, the content
\* elements and the pages, all in memory. The layout can raise (a LayoutError
\* for a row that fits no page); the except clause answers 500.
generate_affidavit(w, records) ==
    UNION { LET named == [w EXCEPT !.filename = MakeFilename(data.transactionId, uuid4(k))]
            IN  { [named EXCEPT !.pc = "open", !.bytes = BytesOf(Compose(data, hk))],
                  Respond(named, 500, "layout") }
            : data \in records, k \in Seeds, hk \in Seeds }

\* POST /generate-affidavit: the dependency, then the handler
Generate(i) ==
    /\ Free(i)
    /\ served' = served + 1
    /\ \E h \in ServiceHeaders :
         LET checked == verify_api_key(h)
             w == [Idle EXCEPT !.kind = "generate", !.token = checked.token]
         IN  \E r \in Depends(w, checked, generate_affidavit(w, clients.records)) :
                workers' = [workers EXCEPT ![i] = r]
    /\ UNCHANGED <<store, issued, clients, Quiet>>

\* doc.build saves the canvas: open(filepath, "wb") creates or truncates the file
GenOpen(i) ==
    /\ workers[i].pc = "open"
    /\ IF CanOpen(workers[i].filename)
       THEN /\ store' = Put(store, workers[i].filename, NoBytes)
            /\ workers' = [workers EXCEPT ![i].pc = "write"]
       ELSE /\ workers' = [workers EXCEPT ![i] = Respond(workers[i], 500, "open")]
            /\ UNCHANGED store
    /\ UNCHANGED <<issued, served, clients, Quiet>>

\* the bytes are written and the DocumentReference returned; or the write
\* raises (the disk is full), and the except clause answers 500
GenWrite(i) ==
    /\ workers[i].pc = "write"
    /\ LET w == workers[i]
           reference == [pdfUrl |-> MakeUrl(w.filename), filename |-> w.filename]
       IN  \/ /\ store' = Put(store, w.filename, w.bytes)
              /\ workers' = [workers EXCEPT ![i] =
                     Respond([w EXCEPT !.ref = <<reference>>], 200, "")]
              /\ issued' = IF w.filename \in DOMAIN issued THEN issued
                            ELSE Put(issued, w.filename, w.bytes)
           \/ /\ workers' = [workers EXCEPT ![i] = Respond(w, 500, "write")]
              /\ UNCHANGED <<store, issued>>
    /\ UNCHANGED <<served, clients, Quiet>>

\* download_affidavit: 404 unless the path exists; FileResponse sends a
\* regular file's bytes and raises on anything else
download_affidavit(w, name, files) ==
    LET named == [w EXCEPT !.filename = name]
    IN  IF ~Exists(name, files) THEN Respond(named, 404, "PDF not found")
        ELSE IF IsDirectory(name) THEN Respond(named, 500, "not a file")
        ELSE Respond([named EXCEPT !.content = <<files[name]>>], 200, "")

\* GET /download-affidavit/{filename}: the dependency, then the handler
Retrieve(i) ==
    /\ Free(i)
    /\ served' = served + 1
    /\ \E h \in ServiceHeaders :
         LET checked == verify_api_key(h)
             w == [Idle EXCEPT !.kind = "retrieve", !.token = checked.token]
         IN  \E r \in Depends(w, checked,
                         { download_affidavit(w, name, store) : name \in RetrieveNames }) :
                workers' = [workers EXCEPT ![i] = r]
    /\ UNCHANGED <<store, issued, clients, Quiet>>

Empty == [n \in {} |-> NoBytes]

\* what the other specifications leave alone
ServiceIdle ==
    /\ store = Empty /\ issued = Empty /\ served = 0
    /\ workers = [i \in Workers |-> Idle]
    /\ clients = [threads |-> {}, requests |-> 0, records |-> {}]

AuthIdle == authIn = NoHeader /\ authOut = <<>>

PdfIdle == pdfIn = <<>> /\ pdfOut = <<>>

CanvasIdle ==
    /\ canvas = <<>>
    /\ deco = [page |-> 0, pc |-> 0, entry |-> <<>>, outcome |-> "none", callback |-> ""]

\* concurrent clients, all sending records with one and the same transactionId
Init ==
    /\ store = Empty /\ issued = Empty /\ served = 0
    /\ workers = [i \in Workers |-> Idle]
    /\ clients = [threads |-> Workers, requests |-> MaxRequests,
                  records |-> { AffidavitRequest(<<"T">>, Some(<<"n">>), <<"A">>) }]
    /\ AuthIdle /\ PdfIdle /\ CanvasIdle

Next ==
    \/ \E i \in Workers : Generate(i)
    \/ \E i \in Workers : GenOpen(i)
    \/ \E i \in Workers : GenWrite(i)
    \/ \E i \in Workers : Retrieve(i)

Spec == Init /\ [][Next]_vars

\* one client, one request after the other, any record
InitSequential ==
    /\ store = Empty /\ issued = Empty /\ served = 0
    /\ workers = [i \in Workers |-> Idle]
    /\ clients = [threads |-> {1}, requests |-> MaxRequests + 1,
                  records |-> { AffidavitRequest(t, n, <<"A">>) :
                                  t \in TransactionIds, n \in {None, Some(<<"n">>)} }]
    /\ AuthIdle /\ PdfIdle /\ CanvasIdle

SpecSequential == InitSequential /\ [][Next]_vars

----------------------------------------------------------------------------
(* The credential check on its own *)

InitAuth ==
    /\ authIn \in Headers
    /\ authOut = <<>>
    /\ ServiceIdle /\ PdfIdle /\ CanvasIdle

CheckAuth ==
    /\ authOut = <<>>
    /\ authOut' = <<verify_api_key(authIn)>>
    /\ UNCHANGED <<authIn, pdfIn, pdfOut, store, workers, issued, served, clients, canvas, deco>>

NextAuth == CheckAuth

SpecAuth == InitAuth /\ [][NextAuth]_vars

----------------------------------------------------------------------------
(* The composition of the two tables on its own *)

InitPdf ==
    /\ pdfIn \in { [data |-> AffidavitRequest(t, n, s), hashSeed |-> k] :
                     t \in TransactionIds, n \in NotesValues, s \in Senders, k \in Seeds }
    /\ pdfOut = <<>>
    /\ ServiceIdle /\ AuthIdle /\ CanvasIdle

ComposePdf ==
    /\ pdfOut = <<>>
    /\ pdfOut' = <<Compose(pdfIn.data, pdfIn.hashSeed)>>
    /\ UNCHANGED <<authIn, authOut, pdfIn, store, workers, issued, served, clients, canvas, deco>>

NextPdf == ComposePdf

SpecPdf == InitPdf /\ [][NextPdf]_vars

----------------------------------------------------------------------------
(* The page decorator on the canvas *)

MaxPages == 2

\* The graphics state saveState keeps and restoreState brings back. Widths
\* are in tenths of a point; transform lists what was applied to the page's own.
InitialState ==
    [fill |-> "black", stroke |-> "black", lineWidth |-> 10,
     font |-> <<"Helvetica", 12>>, transform |-> <<>>]

BodyState ==
    [fill |-> "VAULT_GREEN", stroke |-> "VAULT_GREEN", lineWidth |-> 5,
     font |-> <<"Helvetica-Bold", 10>>, transform |-> <<"translate">>]

\* the canvas doc.build hands to the page callback: a fresh page's, or one
\* with a state of the backend's own saved below
EntryCanvases ==
    { [state |-> InitialState, stack |-> <<>>],
      [state |-> BodyState, stack |-> <<InitialState>>] }

\* add_page_elements, statement by statement
Decoration ==
    << [op |-> "saveState", arg |-> ""],
       [op |-> "setFillColor", arg |-> "VAULT_GREEN"],
       [op |-> "rect", arg |-> "header"],
       [op |-> "setFillColor", arg |-> "VAULT_WHITE"],
       [op |-> "setFont", arg |-> <<"Helvetica-Bold", 16>>],
       [op |-> "drawString", arg |-> "VAULT"],
       [op |-> "setFont", arg |-> <<"Helvetica-Bold", 80>>],
       [op |-> "setFillColor", arg |-> "VAULT_LIGHT_GREEN"],
       [op |-> "saveState", arg |-> ""],
       [op |-> "translate", arg |-> "centre"],
       [op |-> "rotate", arg |-> "45"],
       [op |-> "drawCentredString", arg |-> "VAULT"],
       [op |-> "restoreState", arg |-> ""],
       [op |-> "setFillColor", arg |-> "VAULT_GREEN"],
       [op |-> "rect", arg |-> "footer"],
       [op |-> "setFillColor", arg |-> "VAULT_WHITE"],
       [op |-> "setFont", arg |-> <<"Helvetica", 8>>],
       [op |-> "drawCentredString", arg |-> "footer"],
       [op |-> "setStrokeColor", arg |-> "VAULT_GREEN"],
       [op |-> "setLineWidth", arg |-> 5],
       [op |-> "rect", arg |-> "border"],
       [op |-> "restoreState", arg |-> ""] >>

\* one canvas call
Apply(c, call) ==
    CASE call.op = "saveState" ->
            [c EXCEPT !.stack = Append(@, c.state)]
      [] call.op = "restoreState" ->
            [state |-> c.stack[Len(c.stack)], stack |-> SubSeq(c.stack, 1, Len(c.stack) - 1)]
      [] call.op = "setFillColor" -> [c EXCEPT !.state.fill = call.arg]
      [] call.op = "setStrokeColor" -> [c EXCEPT !.state.stroke = call.arg]
      [] call.op = "setLineWidth" -> [c EXCEPT !.state.lineWidth = call.arg]
      [] call.op = "setFont" -> [c EXCEPT !.state.font = call.arg]
      [] call.op \in {"translate", "rotate"} ->
            [c EXCEPT !.state.transform = Append(@, call.op)]
      [] OTHER -> c

\* doc.build(elements, onFirstPage=add_page_elements, onLaterPages=add_page_elements)
PageCallback(page) == IF page = 1 THEN "add_page_elements" ELSE "add_page_elements"

InitCanvas ==
    /\ canvas \in EntryCanvases
    /\ deco = [page |-> 0, pc |-> 0, entry |-> canvas, outcome |-> "none", callback |-> ""]
    /\ ServiceIdle /\ AuthIdle /\ PdfIdle

NotCanvas == <<authIn, authOut, pdfIn, pdfOut, store, workers, issued, served, clients>>

\* doc.build starts a page and calls the page callback on its canvas
BeginPage ==
    /\ deco.pc = 0
    /\ deco.outcome # "raised"
    /\ deco.page < MaxPages
    /\ canvas' \in EntryCanvases
    /\ deco' = [page |-> deco.page + 1, pc |-> 1, entry |-> canvas',
                outcome |-> "none", callback |-> PageCallback(deco.page + 1)]
    /\ UNCHANGED NotCanvas

\* the next statement of add_page_elements runs; after the last it returns
DecoStep ==
    /\ deco.pc \in 1..Len(Decoration)
    /\ canvas' = Apply(canvas, Decoration[deco.pc])
    /\ deco' = IF deco.pc < Len(Decoration)
               THEN [deco EXCEPT !.pc = @ + 1]
               ELSE [deco EXCEPT !.pc = 0, !.outcome = "returned"]
    /\ UNCHANGED NotCanvas

\* the next statement raises: the exception leaves add_page_elements, which has
\* no try/finally, and ends doc.build
DecoRaise ==
    /\ deco.pc \in 2..Len(Decoration)
    /\ deco' = [deco EXCEPT !.pc = 0, !.outcome = "raised"]
    /\ UNCHANGED canvas
    /\ UNCHANGED NotCanvas

NextCanvas == BeginPage \/ DecoStep \/ DecoRaise

SpecCanvas == InitCanvas /\ [][NextCanvas]_vars

----------------------------------------------------------------------------
(* Properties *)

\* C1: a header passes verify_api_key if and only if it is exactly "Bearer "
\* followed by the configured key; no other header value is accepted.
C1_OnlyTheExactBearerCredentialPasses ==
    authOut # <<>> =>
        (authOut[1].status = 200 <=> authIn = HeaderOf(Bearer \o API_KEY))

\* C2: a request whose credential is rejected composes nothing and touches no
\* storage: the handler's work (a filename, a document, a file's bytes, a
\* reference) exists only in requests whose check returned the key, and the
\* step that rejects a request leaves the store as it was.
C2_RejectedRequestTouchesNothing ==
    /\ [](\A i \in Workers :
            (workers[i].pc # "idle" /\ workers[i].token # API_KEY) =>
                /\ workers[i].pc = "done"
                /\ workers[i].status \in {401, 422}
                /\ workers[i].filename = <<>>
                /\ workers[i].bytes = NoBytes
                /\ workers[i].ref = <<>>
                /\ workers[i].content = <<>>)
    /\ [][\A i \in Workers :
            (workers'[i] # workers[i] /\ workers'[i].status \in {401, 422}) =>
                store' = store /\ issued' = issued]_vars

\* C2's case: a Generate request is rejected while the store holds an artifact.
C2_Witness ==
    \E i \in Workers :
        /\ workers[i].kind = "generate"
        /\ workers[i].status = 401
        /\ \E n \in DOMAIN store : store[n] # NoBytes

\* C3: no Generate opens a storage key that an earlier or concurrent Generate
\* has opened: the file a Generate creates does not exist yet.
C3_NoTwoGeneratesShareAKey ==
    [][\A i \in Workers :
        (workers[i].pc = "open" /\ workers'[i].pc = "write") =>
            workers[i].filename \notin DOMAIN store]_vars

\* VAULT_Affidavit_<transactionId>_<8 hex chars>.pdf
IsAffidavitName(f) ==
    LET n == Len(f)
    IN  /\ n >= 16 + 1 + 8 + 4
        /\ SubSeq(f, 1, 16) = FilenamePrefix
        /\ SubSeq(f, n - 3, n) = <<".", "p", "d", "f">>
        /\ f[n - 12] = "_"
        /\ \A j \in (n - 11)..(n - 4) : \E d \in 1..16 : f[j] = HexDigits[d]

\* C4: with a correct credential and no fault of the environment (a layout
\* that fits, a disk that takes the bytes), Generate on any record answers 200
\* with a reference whose filename has the VAULT_Affidavit_ form, whose path is
\* /download-affidavit/<filename>, and under which the document is stored.
C4_GenerateSucceedsForEveryRecord ==
    \A i \in Workers :
        ( /\ workers[i].kind = "generate"
          /\ workers[i].pc = "done"
          /\ workers[i].token = API_KEY
          /\ workers[i].detail \notin {"layout", "write"} ) =>
            /\ workers[i].status = 200
            /\ IsAffidavitName(workers[i].filename)
            /\ workers[i].ref = <<[pdfUrl |-> MakeUrl(workers[i].filename),
                                   filename |-> workers[i].filename]>>
            /\ workers[i].filename \in DOMAIN store
            /\ store[workers[i].filename] = workers[i].bytes

\* C5: a Retrieve, with a valid credential, of a filename that a Generate has
\* returned answers 200 with the bytes that Generate stored, and leaves the
\* store as it was.
C5_RetrieveReturnsTheStoredBytes ==
    [][\A i \in Workers :
        ( /\ workers'[i] # workers[i]
          /\ workers'[i].kind = "retrieve"
          /\ workers'[i].token = API_KEY
          /\ workers'[i].filename \in DOMAIN issued ) =>
            /\ workers'[i].status = 200
            /\ workers'[i].content = <<issued[workers'[i].filename]>>
            /\ store' = store]_vars

\* C6: a Retrieve, with a valid credential, of a filename (not a directory's
\* name) that no Generate has returned answers 404.
C6_NeverProducedIsNotFound ==
    \A i \in Workers :
        ( /\ workers[i].kind = "retrieve"
          /\ workers[i].pc = "done"
          /\ workers[i].token = API_KEY
          /\ ~IsDirectory(workers[i].filename)
          /\ workers[i].filename \notin DOMAIN issued ) =>
            workers[i].status = 404

\* C7: a Generate that fails answers 500, returns no reference, and leaves
\* nothing in the store under the filename it chose.
C7_FailedGenerateLeavesNothing ==
    \A i \in Workers :
        ( /\ workers[i].kind = "generate"
          /\ workers[i].pc = "done"
          /\ workers[i].token = API_KEY
          /\ workers[i].status # 200 ) =>
            /\ workers[i].status = 500
            /\ workers[i].ref = <<>>
            /\ workers[i].filename \notin DOMAIN store

Labels(rows) == [j \in 1..Len(rows) |-> rows[j][1]]

FiveRows == <<"Transaction ID", "Date", "Sender", "Receiver", "Amount">>

\* C8: the transaction table has the rows Transaction ID, Date, Sender,
\* Receiver, Amount, in that order, and nothing more when notes is None or "";
\* when notes is a non-empty string, a sixth and last row Notes holding it.
C8_DetailTableRows ==
    pdfOut # <<>> =>
        LET rows == pdfOut[1].transaction_table
            notes == pdfIn.data.notes
        IN  IF notes = None \/ notes = Some(<<>>)
            THEN Labels(rows) = FiveRows
            ELSE /\ Labels(rows) = FiveRows \o <<"Notes">>
                 /\ rows[6][2] = notes[1]

\* C8's case at its edge: a record whose notes is the empty string was composed.
C8_Witness ==
    /\ pdfOut # <<>>
    /\ pdfIn.data.notes = Some(<<>>)
    /\ Len(pdfOut[1].transaction_table) = 5

UpperHexDigits ==
    {"0", "1", "2", "3", "4", "5", "6", "7", "8", "9", "A", "B", "C", "D", "E", "F"}

\* C9: the verification table has the three rows Verification Status
\* (VERIFIED), Security Hash, Platform (VAULT Financial), in that order, and the
\* hash is 12 characters, each an uppercase hexadecimal digit.
C9_VerificationTable ==
    pdfOut # <<>> =>
        LET rows == pdfOut[1].verification_table
        IN  /\ Labels(rows) = <<"Verification Status:", "Security Hash:", "Platform:">>
            /\ rows[1][2] = <<"V", "E", "R", "I", "F", "I", "E", "D">>
            /\ rows[3][2] = <<"V", "A", "U", "L", "T", " ",
                              "F", "i", "n", "a", "n", "c", "i", "a", "l">>
            /\ Len(rows[2][2]) = 12
            /\ \A j \in 1..Len(rows[2][2]) : rows[2][2][j] \in UpperHexDigits

\* C9's case: a composed hash in which a letter digit occurs.
C9_Witness ==
    /\ pdfOut # <<>>
    /\ \E j \in 1..12 : pdfOut[1].verification_table[2][2][j] \in {"A", "B", "C", "D", "E", "F"}

\* C10: whenever add_page_elements is left, by returning or by raising, the
\* canvas is as it was at entry: the same graphics state and the same stack of
\* saved states; and the callback of every page is add_page_elements.
C10_DecorationRestoresTheCanvas ==
    /\ deco.page >= 1 => deco.callback = "add_page_elements"
    /\ deco.outcome \in {"returned", "raised"} => canvas = deco.entry

====
